---- MODULE Spec2Model ----
(***************************************************************************)
(* A model of synaptic (src/synaptic/meta.py, src/synaptic/pointer.py):    *)
(* metadata records attached to the nodes of a Maya scene.                 *)
(*                                                                         *)
(* The scene is the state: the nodes with their current names, the string  *)
(* attributes persistentData / transientData of every metadata node, the   *)
(* host connections, the multi message attributes that hold the tags, and  *)
(* the reference state of every node.  Python objects of class Metadata    *)
(* are pairs of node handles.  Attribute texts are sequences of single     *)
(* characters, written by json_dumps and read back by json_loads.          *)
(***************************************************************************)
EXTENDS Integers, Sequences, FiniteSets, TLC

\* ------------------------------------------------------------------ bounds
\* Nodes the scene may hold (the scene starts with SceneNames).
MaxNodes == 5
\* Key/value entries stored over all data attributes of the scene.
MaxEntries == 3
\* Data attributes that may hold text not written by this module.
MaxForeign == 1
\* Highest index of a tag attribute that tag() may connect.
MaxIndex == 2
\* Tag connections over the whole scene.
MaxLinks == 3

\* ------------------------------------------------------------ value spaces
\* Python's None, as returned by dict.get(label, None) and by meta.get().
None == "None"
\* Labels passed to Metadata.set / Metadata.get (one character each).
Labels == {"a", "b"}
\* Values passed to Metadata.set: two str objects.
Values == {"A", "B"}
\* Tag names passed to tag / untag / find.
TagNames == {"t", "u"}
\* Nodes of the scene before any metadata is created.
SceneNames == <<"pCube1", "pCube1_ctrl">>
\* The callers whose set calls may interleave.
Callers == {1, 2}
\* Names a node may be renamed to.
RenameNames == {"cube_final", "meta_final"}

Handles == 1 .. (MaxNodes + 2)
NoHandle == 0
EmptyMap == [ x \in {} |-> NoHandle ]

\* ------------------------------------------------------------------- dict
\* A Python dict is its items in insertion order: a sequence of <<key, value>>.
EmptyDict == << >>

DictKeys(d) == { d[i][1] : i \in 1 .. Len(d) }

DictHas(d, k) == k \in DictKeys(d)

\* dict.get(k, None)
DictGetStrict(d, k) ==
    IF DictHas(d, k)
    THEN LET i == CHOOSE j \in 1 .. Len(d) : d[j][1] = k IN d[i][2]
    ELSE "KeyError"

DictGet(d, k) ==
    IF DictHas(d, k)
    THEN LET i == CHOOSE j \in 1 .. Len(d) : d[j][1] = k IN d[i][2]
    ELSE None

\* d[k] = v : an existing key keeps its position, a new key is appended.
DictSet(d, k, v) ==
    IF DictHas(d, k)
    THEN [ i \in 1 .. Len(d) |-> IF d[i][1] = k THEN <<k, v>> ELSE d[i] ] \o << >>
    ELSE Append(d, <<k, v>>)

\* ------------------------------------------------------------------- json
Quote == "\""

\* json.dumps of one value: a str in quotes, None as null.
EncodeValue(v) ==
    IF v = None THEN <<"n", "u", "l", "l">> ELSE <<Quote, v, Quote>>

RECURSIVE EncodeItems(_)
EncodeItems(d) ==
    IF Len(d) = 0 THEN << >>
    ELSE LET item == <<Quote, d[1][1], Quote, ":", " ">> \o EncodeValue(d[1][2])
         IN  IF Len(d) = 1 THEN item
             ELSE item \o <<",", " ">> \o EncodeItems(Tail(d))

\* json.dumps(current_data) with the default separators ", " and ": ".
json_dumps(d) == <<"{">> \o EncodeItems(d) \o <<"}">>

\* The decoder.  A parse result is [ok, val, next]: ok is FALSE where
\* json.loads raises JSONDecodeError, next is the position after the value.
Failed == [ok |-> FALSE, val |-> None, next |-> 0]

RECURSIVE SkipWs(_, _)
SkipWs(t, i) == IF i <= Len(t) /\ t[i] = " " THEN SkipWs(t, i + 1) ELSE i

At(t, i, c) == i <= Len(t) /\ t[i] = c

\* A string literal of one character (the strings of the model).
ParseString(t, i) ==
    IF At(t, i, Quote) /\ i + 2 <= Len(t) /\ t[i + 1] # Quote /\ At(t, i + 2, Quote)
    THEN [ok |-> TRUE, val |-> t[i + 1], next |-> i + 3]
    ELSE Failed

ParseNull(t, i) ==
    IF At(t, i, "n") /\ At(t, i + 1, "u") /\ At(t, i + 2, "l") /\ At(t, i + 3, "l")
    THEN [ok |-> TRUE, val |-> None, next |-> i + 4]
    ELSE Failed

ParseValue(t, i) == IF At(t, i, Quote) THEN ParseString(t, i) ELSE ParseNull(t, i)

\* The members of an object from position i on, added to the dict d.
RECURSIVE ParseMembers(_, _, _)
ParseMembers(t, i, d) ==
    LET k  == ParseString(t, i)
        c  == SkipWs(t, k.next)
        v  == ParseValue(t, SkipWs(t, c + 1))
        e  == SkipWs(t, v.next)
    IN  IF ~k.ok \/ ~At(t, c, ":") THEN Failed
        ELSE IF ~v.ok THEN Failed
        ELSE IF At(t, e, "}")
             THEN [ok |-> TRUE, val |-> DictSet(d, k.val, v.val), next |-> e + 1]
        ELSE IF At(t, e, ",")
             THEN ParseMembers(t, SkipWs(t, e + 1), DictSet(d, k.val, v.val))
        ELSE Failed

ParseObject(t, i) ==
    LET j == SkipWs(t, i + 1)
    IN  IF ~At(t, i, "{") THEN Failed
        ELSE IF At(t, j, "}") THEN [ok |-> TRUE, val |-> EmptyDict, next |-> j + 1]
        ELSE ParseMembers(t, j, EmptyDict)

\* json.loads(text): [ok |-> FALSE] is JSONDecodeError; kind tells a dict from
\* the other values a JSON text may hold (a str, None).
json_loads(t) ==
    LET i == SkipWs(t, 1)
        r == IF At(t, i, "{") THEN ParseObject(t, i) ELSE ParseValue(t, i)
    IN  IF r.ok /\ SkipWs(t, r.next) = Len(t) + 1
        THEN [ok |-> TRUE, kind |-> IF At(t, i, "{") THEN "dict" ELSE "other",
              val |-> r.val]
        ELSE [ok |-> FALSE, kind |-> "error", val |-> None]

\* ------------------------------------------------------------------ scene
VARIABLES
    nodeName,    \* handle -> current name, for every node of the scene
    dataAttr,    \* metadata node -> its persistentData / transientData text
    hostConns,   \* the connections <<source, metanode>> into .host, in the order made
    tagAttr,     \* metadata node -> tag attribute -> (index -> connected source)
    referenced,  \* the nodes for which referenceQuery(isNodeReferenced) is true
    instances,   \* the Metadata objects constructed so far
    last,        \* the last call: operation, arguments, exception, return value
    pending      \* caller -> the set call it is in, and how far the call has got

vars == <<nodeName, dataAttr, hostConns, tagAttr, referenced, instances, last, pending>>

\* class _Attributes
HOST == "host"
PERSISTENT_DATA == "persistentData"
TRANSIENT_DATA == "transientData"
MESSAGE == "message"

\* Metadata._NODE_NAME + '#': the host picks the number that makes the name new.
NODE_NAME(n) ==
    CASE n = 1 -> "SYNAPTIC_METANODE1" [] n = 2 -> "SYNAPTIC_METANODE2"
      [] n = 3 -> "SYNAPTIC_METANODE3" [] n = 4 -> "SYNAPTIC_METANODE4"
      [] n = 5 -> "SYNAPTIC_METANODE5" [] OTHER -> "SYNAPTIC_METANODE6"

\* Metadata._TAG_PREFIX + tag_name
TagAttrName(tag_name) ==
    CASE tag_name = "t" -> "usertagt" [] tag_name = "u" -> "usertagu"
      [] OTHER -> "usertag"

Nodes == DOMAIN nodeName
NodeNames == { nodeName[h] : h \in Nodes }
MetaNodes == DOMAIN dataAttr

\* A plug "node.attr" or "node.attr[index]" as the host prints it; index -1: none.
Plug(node, attr, index) == [node |-> node, attr |-> attr, index |-> index]

RECURSIVE SetToSeq(_)
SetToSeq(S) ==
    IF S = {} THEN << >>
    ELSE LET x == CHOOSE y \in S : TRUE IN <<x>> \o SetToSeq(S \ {x})

Min(S) == CHOOSE x \in S : \A y \in S : x <= y
Max(S) == CHOOSE x \in S : \A y \in S : x >= y

RECURSIVE SortedSeq(_)
SortedSeq(S) == IF S = {} THEN << >> ELSE <<Min(S)>> \o SortedSeq(S \ {Min(S)})

\* ---------------------------------------------------------------- pointer
NotFound == "RuntimeError"

\* The selection list of a scene whose nodes are named by names.
PointerIn(names, node_name) ==
    IF \E h \in DOMAIN names : names[h] = node_name
    THEN CHOOSE h \in DOMAIN names : names[h] = node_name
    ELSE NoHandle

\* pointer.get_pointer: the MObject of the node with this name; NoHandle where
\* the selection list raises and the function raises RuntimeError.
get_pointer(node_name) == PointerIn(nodeName, node_name)

\* The name of the node behind the MObject, in a scene whose nodes are named
\* by names.
NameIn(names, pointer) == names[pointer]

\* A get_name that answers with the first metadata node of the scene for
\* every metadata node, as if the objects shared one _meta_pointer.
get_name_shared(pointer) ==
    IF pointer \in DOMAIN dataAttr
    THEN NameIn(nodeName, Min(DOMAIN dataAttr))
    ELSE NameIn(nodeName, pointer)

\* pointer.get_name: the current name of the node behind the MObject.
get_name(pointer) == NameIn(nodeName, pointer)

\* ------------------------------------------------------------ host queries
\* The part of the scene the lookup of a metadata node reads.
Scene == [nodeName |-> nodeName, hostConns |-> hostConns, tagAttr |-> tagAttr]

\* mc.listConnections(f"{host}.message", source=False, destination=True,
\* connections=True, plugs=True): the flat list [host.message, target plug, ...].
TagPlugsFrom(scene, h) ==
    { Plug(scene.nodeName[x[1]], x[2], x[3]) :
        x \in { y \in (DOMAIN scene.tagAttr) \X {TagAttrName(t) : t \in TagNames}
                        \X (0 .. MaxIndex + 1) :
                  /\ y[2] \in DOMAIN scene.tagAttr[y[1]]
                  /\ y[3] \in DOMAIN scene.tagAttr[y[1]][y[2]]
                  /\ scene.tagAttr[y[1]][y[2]][y[3]] = h } }

HostPlugsFrom(scene, h) ==
    LET idx == { i \in 1 .. Len(scene.hostConns) : scene.hostConns[i][1] = h }
        ord == SortedSeq(idx)
    IN  [ k \in 1 .. Len(ord) |->
            Plug(scene.nodeName[scene.hostConns[ord[k]][2]], HOST, -1) ] \o << >>

listConnectionsMessage(scene, host) ==
    LET h    == PointerIn(scene.nodeName, host)
        dest == SetToSeq(TagPlugsFrom(scene, h)) \o HostPlugsFrom(scene, h)
    IN  [ k \in 1 .. 2 * Len(dest) |->
            IF k % 2 = 1 THEN Plug(host, MESSAGE, -1) ELSE dest[k \div 2] ] \o << >>

\* A test that takes every destination plug for a host connection.
EndsWithAnyAttr(plug) == TRUE

\* target_attr.endswith('.host'): the plug of a multi attribute ends with its
\* index, "node.usertagt[0]", the plug of host with the attribute name.
EndsWithHost(plug) == plug.attr = HOST /\ plug.index = -1

\* Metadata.get_metanode, in a given scene
MetanodeIn(scene, host) ==
    LET all_plugs == listConnectionsMessage(scene, host)
        targets   == [ k \in 1 .. Len(all_plugs) \div 2 |-> all_plugs[2 * k] ] \o << >>
        hits      == { k \in 1 .. Len(targets) : EndsWithHost(targets[k]) }
    IN  IF Len(all_plugs) = 0 THEN ""
        ELSE IF hits = {} THEN ""
        ELSE targets[Min(hits)].node

\* Metadata.get_metanode
get_metanode(host) == MetanodeIn(Scene, host)

\* has_meta
has_meta(node) == get_metanode(node) # ""

\* ---------------------------------------------------------------- objects
NoInstance == [host_pointer |-> NoHandle, meta_pointer |-> NoHandle]

\* Metadata.__init__ in a given scene: the object, or NoInstance where
\* get_pointer raises.
MetadataIn(scene, node) ==
    LET hp == PointerIn(scene.nodeName, node)
        mp == PointerIn(scene.nodeName, MetanodeIn(scene, node))
    IN  IF hp = NoHandle \/ mp = NoHandle THEN NoInstance
        ELSE [host_pointer |-> hp, meta_pointer |-> mp]

Metadata(node) == MetadataIn(Scene, node)

\* The record of a call.
Call(op, self, a1, a2, exc, inst, val, names) ==
    [op |-> op, self |-> self, a1 |-> a1, a2 |-> a2, exc |-> exc,
     inst |-> inst, val |-> val, names |-> names]

\* What a call that hands back an object or None returns.
RetObject(inst) == [exc |-> "", inst |-> inst, val |-> "Metadata"]
RetNone == [exc |-> "", inst |-> NoInstance, val |-> None]
RetRaise(exc) == [exc |-> exc, inst |-> NoInstance, val |-> None]

Constructed(inst) ==
    IF inst = NoInstance THEN RetRaise(NotFound) ELSE RetObject(inst)

\* Metadata(node), as an expression of the caller
Construct(node) == Constructed(Metadata(node))

\* The module-level get(node).
get(node) == IF has_meta(node) THEN Construct(node) ELSE RetNone

\* ------------------------------------------------------------- data tiers
\* mc.getAttr(f"{meta_name}.{attr}"), in a scene given by its names and texts
getAttrIn(names, data, meta_name, attr) == data[PointerIn(names, meta_name)][attr]

\* mc.getAttr(f"{meta_name}.{attr}")
getAttr(meta_name, attr) == getAttrIn(nodeName, dataAttr, meta_name, attr)

\* The answer of referenceQuery when the object was constructed, were it kept:
\* create() makes a node that is not referenced.
referenceQuery_cached(meta_name) == FALSE

\* mc.referenceQuery(meta_name, isNodeReferenced=True)
referenceQuery(meta_name) == get_pointer(meta_name) \in referenced

\* The attribute Metadata.set writes.
ActiveAttrPersistent(is_referenced) == PERSISTENT_DATA

ActiveAttr(is_referenced) ==
    IF is_referenced THEN TRANSIENT_DATA ELSE PERSISTENT_DATA

\* Metadata.set down to json.loads: the name of the metadata node, the
\* attribute picked, the dict read from it (the empty dict after
\* JSONDecodeError), and TypeError where what was read takes no item.
\* What set holds once json.loads has returned loaded or raised.
Metadata_set_loaded(meta_name, attr, loaded) ==
    [meta_name    |-> meta_name,
     attr         |-> attr,
     current_data |-> IF loaded.ok /\ loaded.kind = "dict" THEN loaded.val
                      ELSE EmptyDict,
     caught       |-> IF loaded.ok THEN {} ELSE {"JSONDecodeError"},
     exc          |-> IF loaded.ok /\ loaded.kind # "dict" THEN "TypeError" ELSE ""]

Metadata_set_read(self) ==
    LET meta_name == get_name(self.meta_pointer)
        attr      == ActiveAttr(referenceQuery(meta_name))
    IN  Metadata_set_loaded(meta_name, attr, json_loads(getAttr(meta_name, attr)))

\* Metadata.set from current_data[label] = value on: the text setAttr stores.
Metadata_set_text(current_data, label, value) ==
    json_dumps(DictSet(current_data, label, value))

\* A set that stores the new entry alone, without reading the attribute.
Metadata_set_fresh(self, label, value) ==
    LET meta_name == get_name(self.meta_pointer)
        attr      == ActiveAttr(referenceQuery(meta_name))
    IN  [exc |-> "", attr |-> attr,
         text |-> json_dumps(DictSet(EmptyDict, label, value)), caught |-> {}]

\* A set without the except clause: JSONDecodeError leaves the call.
Metadata_set_strict(self, label, value) ==
    LET meta_name     == get_name(self.meta_pointer)
        attr          == ActiveAttr(referenceQuery(meta_name))
        loaded        == json_loads(getAttr(meta_name, attr))
    IN  IF ~loaded.ok
        THEN [exc |-> "JSONDecodeError", attr |-> attr,
              text |-> getAttr(meta_name, attr), caught |-> {}]
        ELSE IF loaded.kind # "dict"
        THEN [exc |-> "TypeError", attr |-> attr,
              text |-> getAttr(meta_name, attr), caught |-> {}]
        ELSE [exc |-> "", attr |-> attr,
              text |-> json_dumps(DictSet(loaded.val, label, value)), caught |-> {}]

\* Metadata.set: [exc, attr, text, caught]: the exception raised, or the
\* attribute written and the text stored in it, and the exception the except
\* clause caught on the way.
\* What set does with what it has read: [exc, attr, text, caught].
Metadata_set_stored(rd, label, value) ==
    IF rd.exc # ""
    THEN [exc |-> rd.exc, attr |-> rd.attr,
          text |-> getAttr(rd.meta_name, rd.attr), caught |-> rd.caught]
    ELSE [exc |-> "", attr |-> rd.attr,
          text |-> Metadata_set_text(rd.current_data, label, value),
          caught |-> rd.caught]

Metadata_set(self, label, value) ==
    Metadata_set_stored(Metadata_set_read(self), label, value)

\* dict.update(other) with a str for other: the elements of a str are its
\* characters, a character is no key/value pair, so the first one raises
\* ValueError and the dict is unchanged; the empty str updates nothing.
dict_update(d, other) ==
    IF Len(other) = 0 THEN [ok |-> TRUE, val |-> d] ELSE [ok |-> FALSE, val |-> d]

\* The body of Metadata.get once the two attributes are read: [exc, val].
\* A persistentData that decodes to something other than a dict has no
\* update method: AttributeError, which the except clause does not catch.
all_data_get(persistent, transient, label) ==
    LET loaded    == json_loads(persistent)
        all_data  == IF loaded.ok THEN loaded.val ELSE EmptyDict
        updated   == dict_update(all_data, transient)
    IN  IF loaded.ok /\ loaded.kind # "dict"
        THEN [exc |-> "AttributeError", val |-> None]
        ELSE [exc |-> "", val |-> DictGet(updated.val, label)]

\* Metadata.get in a scene given by its names and texts: [exc, val].
Metadata_getIn(names, data, self, label) ==
    LET meta_name == NameIn(names, self.meta_pointer)
    IN  all_data_get(getAttrIn(names, data, meta_name, PERSISTENT_DATA),
                     getAttrIn(names, data, meta_name, TRANSIENT_DATA), label)

\* Metadata.get: [exc, val].
Metadata_get(self, label) == Metadata_getIn(nodeName, dataAttr, self, label)

\* --------------------------------------------------------------------- tags
\* mc.objExists(attribute_fullpath), in a scene given by its names and tags
objExistsIn(names, tags, meta_name, attr) ==
    attr \in DOMAIN tags[PointerIn(names, meta_name)]

\* mc.objExists(attribute_fullpath)
objExists(meta_name, attr) == objExistsIn(nodeName, tagAttr, meta_name, attr)

\* mc.getAttr(attribute_fullpath, multiIndices=True): the indices in use, ascending.
multiIndices(attrs, attr) == SortedSeq(DOMAIN attrs[attr])

\* An index taken from the number of the indices in use.
next_index_count(indices) == Len(indices)

\* The index tag() connects: one above the last of multiIndices, 0 when the
\* host returns no indices (TypeError / IndexError).
next_index(indices) ==
    IF Len(indices) = 0 THEN 0 ELSE indices[Len(indices)] + 1

\* Metadata.tag: the tag attributes of the metadata node after the call.
Metadata_tag(self, tag_name, target) ==
    LET meta_name == get_name(self.meta_pointer)
        attr      == TagAttrName(tag_name)
        before    == tagAttr[get_pointer(meta_name)]
        added     == IF objExists(meta_name, attr) THEN before
                     ELSE before @@ (attr :> EmptyMap)
        idx       == next_index(multiIndices(added, attr))
        \* connectAttr(..., force=True): a connection already at idx is replaced
    IN  [added EXCEPT ![attr] = (idx :> get_pointer(target)) @@ added[attr]]

\* mc.listConnections(attribute_fullpath, source=True, destination=False,
\* connections=True, plugs=True): the flat list [metanode plug, source plug, ...].
listConnectionsTag(meta_name, attr) ==
    LET conn == tagAttr[get_pointer(meta_name)][attr]
        ord  == SortedSeq(DOMAIN conn)
    IN  [ k \in 1 .. 2 * Len(ord) |->
            IF k % 2 = 1 THEN Plug(meta_name, attr, ord[(k + 1) \div 2])
            ELSE Plug(nodeName[conn[ord[k \div 2]]], MESSAGE, -1) ] \o << >>

\* Metadata.untag: the tag attributes of the metadata node after the call.
Metadata_untag_first(self, tag_name, target) ==
    LET meta_name == get_name(self.meta_pointer)
        attr      == TagAttrName(tag_name)
        before    == tagAttr[get_pointer(meta_name)]
        hit       == { i \in DOMAIN before[attr] : nodeName[before[attr][i]] = target }
    IN  IF ~objExists(meta_name, attr) \/ hit = {} THEN before
        ELSE [before EXCEPT
               ![attr] = [ i \in DOMAIN before[attr] \ {Min(hit)} |-> before[attr][i] ] @@ EmptyMap]

Metadata_untag_label(self, tag_name, target) ==
    LET meta_name == get_name(self.meta_pointer)
        attr      == TagAttrName(tag_name)
        before    == tagAttr[get_pointer(meta_name)]
    IN  IF ~objExists(meta_name, attr) THEN before
        ELSE [before EXCEPT ![attr] = EmptyMap]

Metadata_untag(self, tag_name, target) ==
    LET meta_name == get_name(self.meta_pointer)
        attr      == TagAttrName(tag_name)
        before    == tagAttr[get_pointer(meta_name)]
    IN  IF ~objExists(meta_name, attr) THEN before
        ELSE LET connection_info == listConnectionsTag(meta_name, attr)
                 cut == { connection_info[2 * k - 1].index :
                            k \in { j \in 1 .. Len(connection_info) \div 2 :
                                      connection_info[2 * j].node = target } }
             IN  [before EXCEPT
                    ![attr] = [ i \in DOMAIN before[attr] \ cut |-> before[attr][i] ] @@ EmptyMap]

\* An untag that lists the connections of the target's message plug, not of
\* the tag attribute: every plug the target is connected to.
untag_disconnects_message(self, tag_name, target) ==
    LET all_plugs == listConnectionsMessage(Scene, target)
    IN  { all_plugs[2 * k] : k \in 1 .. Len(all_plugs) \div 2 }

\* Metadata.untag: the destination plugs (meta_attr) disconnectAttr is called
\* for, all of them plugs of the tag attribute the connections were listed of.
untag_disconnects(self, tag_name, target) ==
    LET meta_name == get_name(self.meta_pointer)
        attr      == TagAttrName(tag_name)
    IN  IF ~objExists(meta_name, attr) THEN {}
        ELSE LET connection_info == listConnectionsTag(meta_name, attr)
             IN  { connection_info[2 * k - 1] :
                     k \in { j \in 1 .. Len(connection_info) \div 2 :
                               connection_info[2 * j].node = target } }

\* mc.disconnectAttr(target_attr, meta_attr) for the plugs of target named:
\* the connections into .host that are left.
disconnectAttrHost(conns, target, plugs) ==
    LET Kept(c) == ~( /\ nodeName[c[1]] = target
                      /\ Plug(nodeName[c[2]], HOST, -1) \in plugs )
    IN  SelectSeq(conns, Kept)

\* mc.listConnections(attribute_fullpath, source=True, destination=False):
\* the name of the source node of every connection, one entry per connection.
listSourcesIn(names, tags, meta_name, attr) ==
    LET conn == tags[PointerIn(names, meta_name)][attr]
        ord  == SortedSeq(DOMAIN conn)
    IN  [ k \in 1 .. Len(ord) |-> names[conn[ord[k]]] ] \o << >>

listSources(meta_name, attr) == listSourcesIn(nodeName, tagAttr, meta_name, attr)

\* list(set(names)): every name once, in an order of the interpreter's choosing.
ListNoSet(names) == names

ListOfSet(names) == SetToSeq({ names[k] : k \in 1 .. Len(names) })

\* Metadata.find in a scene given by its names and tags: the list of the
\* names of the tagged nodes.
Metadata_findIn(names, tags, self, tag_name) ==
    LET meta_name == NameIn(names, self.meta_pointer)
        attr      == TagAttrName(tag_name)
    IN  IF ~objExistsIn(names, tags, meta_name, attr) THEN << >>
        ELSE ListOfSet(listSourcesIn(names, tags, meta_name, attr))

\* Metadata.find: the list of the names of the tagged nodes.
Metadata_find(self, tag_name) == Metadata_findIn(nodeName, tagAttr, self, tag_name)

\* A find that adds the tag attribute where there is none, as tag does.
Metadata_find_adding(self, tag_name) ==
    LET meta_name == get_name(self.meta_pointer)
        attr      == TagAttrName(tag_name)
        before    == tagAttr[get_pointer(meta_name)]
    IN  IF objExists(meta_name, attr) THEN before ELSE before @@ (attr :> EmptyMap)

\* Metadata.find: the tag attributes of the metadata node after the call;
\* where objExists is false find returns, and it adds no attribute.
Metadata_find_attrs(self, tag_name) ==
    tagAttr[get_pointer(get_name(self.meta_pointer))]

\* Metadata.find_first: the values it may return (results[0] of a list whose
\* order is not fixed), None for no result.
Metadata_find_first(self, tag_name) ==
    LET results == Metadata_find(self, tag_name)
    IN  IF Len(results) > 0 THEN { results[k] : k \in 1 .. Len(results) } ELSE {None}

\* Metadata.node in a scene whose nodes are named by names.
Metadata_nodeIn(names, self) == NameIn(names, self.meta_pointer)

\* Metadata.node: the current name of the metadata node.
Metadata_node(self) == Metadata_nodeIn(nodeName, self)

\* Metadata.host, were the name the object was constructed with kept as a str.
Metadata_host_stored(names, self) == SceneNames[self.host_pointer]

\* Metadata.host in a scene whose nodes are named by names.
Metadata_hostIn(names, self) == NameIn(names, self.host_pointer)

\* Metadata.host: the current name of the node the metadata represents.
Metadata_host(self) == Metadata_hostIn(nodeName, self)

\* ------------------------------------------------------------- model bounds
IsDictText(t) == LET loaded == json_loads(t) IN loaded.ok /\ loaded.kind = "dict"

DataAttrs == {PERSISTENT_DATA, TRANSIENT_DATA}

\* The dict a tier holds, the empty dict for a text that holds none.
Tier(t) ==
    LET loaded == json_loads(t)
    IN  IF loaded.ok /\ loaded.kind = "dict" THEN loaded.val ELSE EmptyDict

EntriesOf(data) ==
    UNION { {x} \X (1 .. Len(Tier(data[x[1]][x[2]]))) : x \in (DOMAIN data) \X DataAttrs }

ForeignOf(data) ==
    { x \in (DOMAIN data) \X DataAttrs : ~IsDictText(data[x[1]][x[2]]) }

LinksOf(tags) ==
    { x \in (DOMAIN tags) \X {TagAttrName(t) : t \in TagNames} \X (0 .. MaxIndex + 1) :
        /\ x[2] \in DOMAIN tags[x[1]]
        /\ x[3] \in DOMAIN tags[x[1]][x[2]] }

\* Texts another tool may leave in a data attribute: one that is no JSON, and
\* one that is JSON but no object.
ForeignTexts == { <<"{", "a">>, <<"n", "u", "l", "l">> }

\* ------------------------------------------------------------------- Init
\* A caller that is in no set call.
Idle == [pc |-> "idle", self |-> NoInstance, label |-> "", value |-> "",
         meta_name |-> "", attr |-> "", current_data |-> EmptyDict]

NoCall == Call("init", NoInstance, "", "", "", NoInstance, None, {})

Init ==
    /\ nodeName = SceneNames
    /\ dataAttr = EmptyMap
    /\ hostConns = << >>
    /\ tagAttr = EmptyMap
    /\ referenced = {}
    /\ instances = {}
    /\ last = NoCall
    /\ pending = [c \in Callers |-> Idle]

\* ---------------------------------------------------------------- actions
\* The number '#' stands for in a new node's name.
NextNumber == Min({ n \in 1 .. MaxNodes + 2 : NODE_NAME(n) \notin NodeNames })

\* Metadata.create(host_node): a network node with the four attributes,
\* connected to the host, and Metadata(host_node) of the scene it leaves.
CreateNode(op, host_node) ==
    LET meta_node == Cardinality(Nodes) + 1
        after == [nodeName  |-> nodeName @@ (meta_node :> NODE_NAME(NextNumber)),
                  hostConns |-> Append(hostConns, <<get_pointer(host_node), meta_node>>),
                  tagAttr   |-> tagAttr @@ (meta_node :> EmptyMap)]
    IN  /\ Cardinality(Nodes) < MaxNodes
        /\ nodeName' = after.nodeName
        /\ hostConns' = after.hostConns
        /\ tagAttr' = after.tagAttr
        /\ dataAttr' = dataAttr @@
              (meta_node :> [persistentData |-> <<"{", "}">>,
                             transientData  |-> <<"{", "}">>])
        /\ UNCHANGED <<referenced, pending>>
        /\ LET r == Constructed(MetadataIn(after, host_node))
           IN  /\ instances' = instances \cup ({r.inst} \ {NoInstance})
               /\ last' = Call(op, NoInstance, host_node, "", r.exc, r.inst, r.val, {})

\* A call that returns r and changes nothing in the scene.
Return(op, a1, a2, r) ==
    /\ instances' = instances \cup ({r.inst} \ {NoInstance})
    /\ last' = Call(op, NoInstance, a1, a2, r.exc, r.inst, r.val, {})
    /\ UNCHANGED <<pending, nodeName, dataAttr, hostConns, tagAttr, referenced>>

\* The module-level create(node); last.a2 keeps pre_meta.
create_unchecked(node) == CreateNode("create", node)

\* mc.listConnections raises ValueError for a name no node has.
create(node) ==
    LET pre_meta == get_metanode(node)
    IN  IF get_pointer(node) = NoHandle
        THEN Return("create", node, "", RetRaise("ValueError"))
        ELSE IF pre_meta # ""
        THEN Return("create", node, pre_meta, get(pre_meta))
        ELSE CreateNode("create", node)

Create == \E node \in NodeNames : create(node)

\* create() for the first node of the scene only.
CreateHost == create(SceneNames[1])

\* create() for the nodes the scene starts with.
CreateScene == \E k \in 1 .. Len(SceneNames) : create(SceneNames[k])

\* The class method Metadata.create(host_node), called directly.
MetadataCreate == \E host_node \in NodeNames : CreateNode("Metadata.create", host_node)

\* The module-level get(node).
Get == \E node \in NodeNames : Return("get", node, "", get(node))

\* has_meta(node)
HasMeta ==
    \E node \in NodeNames :
        /\ last' = Call("has_meta", NoInstance, node, "", "", NoInstance,
                        IF has_meta(node) THEN "True" ELSE "False", {})
        /\ UNCHANGED <<pending, nodeName, dataAttr, hostConns, tagAttr, referenced, instances>>

\* One call self.set(label, value)
\* The scene after a call self.set(label, value) that came to r.
SetReturned(self, label, value, r) ==
    /\ dataAttr' = IF r.exc = ""
                   THEN [dataAttr EXCEPT ![get_pointer(get_name(self.meta_pointer))][r.attr]
                                            = r.text]
                   ELSE dataAttr
    /\ Cardinality(EntriesOf(dataAttr')) <= MaxEntries
    /\ last' = Call("set", self, label, value, r.exc, NoInstance, r.attr, r.caught)
    /\ UNCHANGED <<pending, nodeName, hostConns, tagAttr, referenced, instances>>

SetCall(self, label, value) ==
    SetReturned(self, label, value, Metadata_set(self, label, value))

\* Metadata.create for the first node of the scene only.
MetadataCreateHost == CreateNode("Metadata.create", SceneNames[1])

\* Metadata.get_metanode(host)
GetMetanode ==
    \E host \in NodeNames :
        /\ last' = Call("get_metanode", NoInstance, host, "", "", NoInstance,
                        get_metanode(host), {})
        /\ UNCHANGED <<pending, nodeName, dataAttr, hostConns, tagAttr, referenced, instances>>

\* Metadata.set(label, value)
MetadataSet ==
    \E self \in instances, label \in Labels, value \in Values :
        SetCall(self, label, value)

\* The text a set call that has read current_data stores, were the attribute
\* read again when it is written.
StoredText_reread(p) ==
    json_dumps(DictSet(Tier(getAttr(p.meta_name, p.attr)), p.label, p.value))

\* The text a set call that has read current_data stores.
StoredText(p) == Metadata_set_text(p.current_data, p.label, p.value)

\* A caller enters self.set(label, value) and runs it down to json.loads.
SetRead ==
    \E c \in Callers, self \in instances, label \in Labels, value \in Values :
        LET rd == Metadata_set_read(self)
        IN  /\ pending[c].pc # "read"
            /\ rd.exc = ""
            /\ pending' = [pending EXCEPT ![c] =
                  [pc |-> "read", self |-> self, label |-> label, value |-> value,
                   meta_name |-> rd.meta_name, attr |-> rd.attr,
                   current_data |-> rd.current_data]]
            /\ last' = NoCall
            /\ UNCHANGED <<nodeName, dataAttr, hostConns, tagAttr, referenced, instances>>

\* A caller that has read runs the rest of set: the item assignment and setAttr.
SetWrite ==
    \E c \in Callers :
        LET p == pending[c]
            m == get_pointer(p.meta_name)
            written == [dataAttr EXCEPT ![m][p.attr] = StoredText(p)]
        IN  /\ p.pc = "read"
            /\ Cardinality(EntriesOf(written)) <= MaxEntries
            /\ dataAttr' = written
            /\ pending' = [pending EXCEPT ![c].pc = "done"]
            /\ last' = Call("set", p.self, p.label, p.value, "", NoInstance, p.attr, {c})
            /\ UNCHANGED <<nodeName, hostConns, tagAttr, referenced, instances>>

\* Metadata.set with the first label only.
SetFirstLabel ==
    \E self \in instances, value \in Values : SetCall(self, "a", value)

\* Metadata.get(label)
MetadataGet ==
    \E self \in instances, label \in Labels :
        LET r == Metadata_get(self, label)
        IN  /\ last' = Call("get", self, label, "", r.exc, NoInstance, r.val, {})
            /\ UNCHANGED <<pending, nodeName, dataAttr, hostConns, tagAttr, referenced, instances>>

\* One call self.tag(tag_name, target)
TagCall(self, tag_name, target) ==
    LET m == get_pointer(get_name(self.meta_pointer))
        tagged == [tagAttr EXCEPT ![m] = Metadata_tag(self, tag_name, target)]
        attr == TagAttrName(tag_name)
        \* the indices at which target was connected before the call
        had == IF attr \in DOMAIN tagAttr[m]
               THEN { i \in DOMAIN tagAttr[m][attr] :
                        tagAttr[m][attr][i] = get_pointer(target) }
               ELSE {}
    IN  /\ Cardinality(LinksOf(tagged)) <= MaxLinks
        /\ \A i \in DOMAIN tagged[m][attr] : i <= MaxIndex
        /\ tagAttr' = tagged
        /\ last' = Call("tag", self, tag_name, target, "", NoInstance, None, had)
        /\ UNCHANGED <<pending, nodeName, dataAttr, hostConns, referenced, instances>>

\* Metadata.tag(tag_name, target)
MetadataTag ==
    \E self \in instances, tag_name \in TagNames, target \in NodeNames :
        TagCall(self, tag_name, target)

\* Metadata.tag with the first tag name only.
TagFirstName ==
    \E self \in instances, target \in NodeNames : TagCall(self, "t", target)

\* One call self.untag(tag_name, target)
UntagCall(self, tag_name, target) ==
    LET m     == get_pointer(get_name(self.meta_pointer))
        after == Metadata_untag(self, tag_name, target)
        attr  == TagAttrName(tag_name)
        \* the indices disconnectAttr was called for
        cut   == IF attr \in DOMAIN after
                 THEN DOMAIN tagAttr[m][attr] \ DOMAIN after[attr] ELSE {}
    IN  /\ tagAttr' = [tagAttr EXCEPT ![m] = after]
        /\ hostConns' = disconnectAttrHost(hostConns, target,
                                           untag_disconnects(self, tag_name, target))
        /\ last' = Call("untag", self, tag_name, target, "", NoInstance, None, cut)
        /\ UNCHANGED <<pending, nodeName, dataAttr, referenced, instances>>

\* Metadata.untag(tag_name, target)
MetadataUntag ==
    \E self \in instances, tag_name \in TagNames, target \in NodeNames :
        UntagCall(self, tag_name, target)

\* Metadata.tag with the first tag name, of the second node of the scene.
TagSceneNode == \E self \in instances : TagCall(self, "t", SceneNames[2])

\* Metadata.untag with the first tag name, of the second node of the scene.
UntagSceneNode == \E self \in instances : UntagCall(self, "t", SceneNames[2])

\* Metadata.find(tag_name)
MetadataFind ==
    \E self \in instances, tag_name \in TagNames :
        /\ last' = Call("find", self, tag_name, "", "", NoInstance, None,
                        Metadata_find(self, tag_name))
        /\ tagAttr' = [tagAttr EXCEPT ![get_pointer(get_name(self.meta_pointer))] =
                          Metadata_find_attrs(self, tag_name)]
        /\ UNCHANGED <<pending, nodeName, dataAttr, hostConns, referenced, instances>>

\* Metadata.find_first(tag_name)
MetadataFindFirst ==
    \E self \in instances, tag_name \in TagNames :
        \E first \in Metadata_find_first(self, tag_name) :
            /\ last' = Call("find_first", self, tag_name, "", "", NoInstance, first, {})
            /\ UNCHANGED <<pending, nodeName, dataAttr, hostConns, tagAttr, referenced, instances>>

\* Metadata.node()
MetadataNode ==
    \E self \in instances :
        /\ last' = Call("node", self, "", "", "", NoInstance, Metadata_node(self), {})
        /\ UNCHANGED <<pending, nodeName, dataAttr, hostConns, tagAttr, referenced, instances>>

\* Metadata.host()
MetadataHost ==
    \E self \in instances :
        /\ last' = Call("host", self, "", "", "", NoInstance, Metadata_host(self), {})
        /\ UNCHANGED <<pending, nodeName, dataAttr, hostConns, tagAttr, referenced, instances>>

\* The user renames a node of the scene to a name no node has: the MObject
\* of the node stays, its name changes.
Rename ==
    \E h \in Nodes, new_name \in RenameNames \ NodeNames :
        /\ nodeName' = [nodeName EXCEPT ![h] = new_name]
        /\ last' = Call("rename", NoInstance, nodeName[h], new_name, "", NoInstance, None, {})
        /\ UNCHANGED <<pending, dataAttr, hostConns, tagAttr, referenced, instances>>

\* The document is loaded again with the metadata node inside a reference, or
\* outside one: what referenceQuery answers for the node changes.
ReferenceChange ==
    \E m \in MetaNodes :
        /\ referenced' = IF m \in referenced THEN referenced \ {m}
                         ELSE referenced \cup {m}
        /\ last' = NoCall
        /\ UNCHANGED <<pending, nodeName, dataAttr, hostConns, tagAttr, instances>>

\* Another tool writes a data attribute of a metadata node.
ForeignEdit ==
    \E m \in MetaNodes, attr \in DataAttrs, text \in ForeignTexts :
        LET edited == [dataAttr EXCEPT ![m][attr] = text]
        IN  /\ Cardinality(ForeignOf(edited)) <= MaxForeign
            /\ dataAttr' = edited
            /\ last' = NoCall
            /\ UNCHANGED <<pending, nodeName, hostConns, tagAttr, referenced, instances>>

\* ---------------------------------------------------------- specifications
Next ==
    \/ Create \/ MetadataCreate \/ Get \/ HasMeta \/ GetMetanode
    \/ MetadataSet \/ MetadataGet
    \/ MetadataTag \/ MetadataUntag \/ MetadataFind \/ MetadataFindFirst
    \/ MetadataNode \/ MetadataHost \/ SetRead \/ SetWrite
    \/ Rename \/ ReferenceChange \/ ForeignEdit

Spec == Init /\ [][Next]_vars

\* Creation and lookup of records through the module-level functions.
NextCreate == Create \/ Get \/ HasMeta

SpecCreate == Init /\ [][NextCreate]_vars

\* The two data tiers of the records.
NextData == CreateHost \/ MetadataSet \/ MetadataGet \/ ReferenceChange \/ ForeignEdit

SpecData == Init /\ [][NextData]_vars

\* The tags of the records.
NextTags == CreateHost \/ MetadataTag \/ MetadataUntag \/ MetadataFind \/ MetadataFindFirst

SpecTags == Init /\ [][NextTags]_vars

\* Records of a scene whose nodes are renamed.
NextRename ==
    \/ CreateHost \/ Rename \/ SetFirstLabel \/ TagFirstName
    \/ MetadataGet \/ MetadataFind \/ MetadataNode \/ MetadataHost

SpecRename == Init /\ [][NextRename]_vars

\* The lookup of the metadata node of a host that is also a tagged node.
NextLookup == CreateScene \/ TagFirstName \/ GetMetanode \/ HasMeta \/ Get

SpecLookup == Init /\ [][NextLookup]_vars

\* The operations that write the scene, the class method Metadata.create among
\* them.
NextPublic ==
    \/ CreateHost \/ MetadataCreateHost \/ SetFirstLabel \/ TagFirstName \/ MetadataUntag

SpecPublic == Init /\ [][NextPublic]_vars

\* Set calls of two callers, interleaved between the read and the write.
NextRace == CreateHost \/ SetRead \/ SetWrite

SpecRace == Init /\ [][NextRace]_vars

\* The calls made on one record once it is created.
NextRecord ==
    \/ CreateHost \/ SetFirstLabel \/ MetadataGet
    \/ TagFirstName \/ MetadataUntag \/ MetadataFind

SpecRecord == Init /\ [][NextRecord]_vars

\* The operations that read, on a record whose attributes hold data, tags and
\* text of other tools.
NextReads ==
    \/ CreateHost \/ SetFirstLabel \/ TagFirstName \/ ForeignEdit
    \/ MetadataGet \/ MetadataFind \/ MetadataFindFirst
    \/ HasMeta \/ GetMetanode \/ MetadataNode \/ MetadataHost

SpecReads == Init /\ [][NextReads]_vars

\* The writing calls on the records of two hosts.
NextIsolation ==
    \/ CreateScene \/ SetFirstLabel \/ TagSceneNode \/ UntagSceneNode
    \/ ReferenceChange

SpecIsolation == Init /\ [][NextIsolation]_vars

\* ------------------------------------------------------------------ claims
\* The connections into .host that come from the node h.
HostLinksOf(h) == { i \in 1 .. Len(hostConns) : hostConns[i][1] = h }

\* The hosts that have a metadata node.
Described == { h \in Nodes : HostLinksOf(h) # {} }

\* The dict of a data attribute of the metadata node m.
TierOf(data, m, attr) == Tier(data[m][attr])

\* C1: create(node) on a node that already has a metadata node (pre_meta, kept
\* in last.a2) raises nothing and returns the Metadata object of that node and
\* that metadata node: never None, never the object of another node.
C1_CreateReturnsExisting ==
    (last.op = "create" /\ last.a2 # "") =>
        /\ last.exc = ""
        /\ last.inst = [host_pointer |-> get_pointer(last.a1),
                        meta_pointer |-> get_pointer(last.a2)]

\* C2: whatever create() calls were made, a node has at most one metadata
\* node connected to it through .host, the node create() was last called on
\* has exactly one, and the scene holds one metadata node per described host
\* and no other new node: the first call made one node, the later calls none.
C2_OneStorageNode ==
    /\ \A h \in Nodes : Cardinality(HostLinksOf(h)) <= 1
    /\ last.op = "create" => Cardinality(HostLinksOf(get_pointer(last.a1))) = 1
    /\ Cardinality(MetaNodes) = Cardinality(Described)
    /\ Cardinality(Nodes) = Len(SceneNames) + Cardinality(Described)

\* C2 witness: create() was called on a node that already had its metadata node.
C2_Witness ==
    /\ last.op = "create"
    /\ last.a2 # ""
    /\ Cardinality(HostLinksOf(get_pointer(last.a1))) = 1

\* C3: a set(label, B) that succeeds while the metadata node is referenced and
\* persistentData holds label leaves get(label) returning B and the value of
\* label in persistentData as it was.
C3_OverrideLaw ==
    [][ LET m     == last'.self.meta_pointer
            label == last'.a1
        IN  ( /\ last'.op = "set"
              /\ last'.exc = ""
              /\ m \in referenced
              /\ DictHas(TierOf(dataAttr, m, PERSISTENT_DATA), label) )
            => /\ all_data_get(dataAttr'[m][PERSISTENT_DATA],
                               dataAttr'[m][TRANSIENT_DATA], label).val = last'.a2
               /\ DictGet(TierOf(dataAttr', m, PERSISTENT_DATA), label)
                    = DictGet(TierOf(dataAttr, m, PERSISTENT_DATA), label) ]_vars

\* C4: with a dict in both data attributes, get(label) raises nothing, returns
\* None exactly when neither dict holds label, the transientData value when
\* only transientData holds it and the persistentData value when only
\* persistentData holds it, referenced or not.
C4_GetReadsBothTiers ==
    \A self \in instances, label \in Labels :
        LET m == self.meta_pointer
            p == TierOf(dataAttr, m, PERSISTENT_DATA)
            t == TierOf(dataAttr, m, TRANSIENT_DATA)
            r == Metadata_get(self, label)
        IN  ( IsDictText(dataAttr[m][PERSISTENT_DATA])
              /\ IsDictText(dataAttr[m][TRANSIENT_DATA]) )
            => /\ r.exc = ""
               /\ (r.val = None) <=> (~DictHas(p, label) /\ ~DictHas(t, label))
               /\ (DictHas(t, label) /\ ~DictHas(p, label)) => r.val = DictGet(t, label)
               /\ (DictHas(p, label) /\ ~DictHas(t, label)) => r.val = DictGet(p, label)

\* C5: a set call made while the metadata node is not referenced leaves
\* transientData as it was, and one made while it is referenced leaves
\* persistentData as it was.
C5_TierIsolation ==
    [][ LET m == last'.self.meta_pointer
        IN  last'.op = "set" =>
              /\ m \notin referenced =>
                   dataAttr'[m][TRANSIENT_DATA] = dataAttr[m][TRANSIENT_DATA]
              /\ m \in referenced =>
                   dataAttr'[m][PERSISTENT_DATA] = dataAttr[m][PERSISTENT_DATA] ]_vars

\* C5 witness: set has written transientData of a referenced metadata node
\* whose persistentData holds an entry.
C5_Witness ==
    /\ last.op = "set"
    /\ last.exc = ""
    /\ last.self.meta_pointer \in referenced
    /\ last.val = TRANSIENT_DATA
    /\ Len(TierOf(dataAttr, last.self.meta_pointer, PERSISTENT_DATA)) > 0
    /\ Len(TierOf(dataAttr, last.self.meta_pointer, TRANSIENT_DATA)) > 0

\* The number of times x occurs in the list s.
Count(s, x) == Cardinality({ k \in 1 .. Len(s) : s[k] = x })

\* The indices of the connections conn whose source is the node h.
LinksTo(conn, h) == { i \in DOMAIN conn : conn[i] = h }

\* The connections of the tag attribute of tag_name on the metadata node m.
TagLinks(tags, m, tag_name) ==
    IF TagAttrName(tag_name) \in DOMAIN tags[m] THEN tags[m][TagAttrName(tag_name)]
    ELSE EmptyMap

\* C6: right after tag(t, X) the list find(t) returns holds X, and right after
\* untag(t, X) it does not, however many connections from X the tag had.
C6_TagRoundTrip ==
    /\ last.op = "tag" => Count(Metadata_find(last.self, last.a1), last.a2) > 0
    /\ last.op = "untag" => Count(Metadata_find(last.self, last.a1), last.a2) = 0

\* C6 witness: one untag call has disconnected two connections from X, and
\* find no longer returns X.
C6_Witness ==
    /\ last.op = "untag"
    /\ Cardinality(last.names) >= 2
    /\ Count(Metadata_find(last.self, last.a1), last.a2) = 0

\* C7: right after tag(t, X) on a tag that already had connections from X
\* (their indices are kept in last.names) the tag has one more connection
\* from X, two where there was one, and the list find(t) returns holds X
\* exactly once.
C7_TagTwiceFindOnce ==
    (last.op = "tag" /\ last.names # {}) =>
        /\ Cardinality(LinksTo(TagLinks(tagAttr, last.self.meta_pointer, last.a1),
                               get_pointer(last.a2)))
             = Cardinality(last.names) + 1
        /\ Count(Metadata_find(last.self, last.a1), last.a2) = 1

\* C7 witness: X was just tagged, the tag has two connections from X and find
\* returns X once.
C7_Witness ==
    /\ last.op = "tag"
    /\ Cardinality(LinksTo(TagLinks(tagAttr, last.self.meta_pointer, last.a1),
                           get_pointer(last.a2))) = 2
    /\ Count(Metadata_find(last.self, last.a1), last.a2) = 1

\* C8: untag(t, X) raises nothing, disconnects exactly the connections of the
\* tag t that come from X and leaves every other connection of t, every other
\* tag attribute and the rest of the scene as they were; with no attribute
\* for t or no connection from X nothing changes.
C8_UntagRemovesExactly ==
    [][ LET m    == last'.self.meta_pointer
            X    == get_pointer(last'.a2)
            attr == TagAttrName(last'.a1)
            old  == TagLinks(tagAttr, m, last'.a1)
        IN  last'.op = "untag" =>
              /\ last'.exc = ""
              /\ DOMAIN tagAttr' = DOMAIN tagAttr
              /\ \A n \in DOMAIN tagAttr : n # m => tagAttr'[n] = tagAttr[n]
              /\ DOMAIN tagAttr'[m] = DOMAIN tagAttr[m]
              /\ \A a \in DOMAIN tagAttr[m] : a # attr => tagAttr'[m][a] = tagAttr[m][a]
              /\ attr \in DOMAIN tagAttr[m] =>
                   /\ DOMAIN tagAttr'[m][attr] = DOMAIN old \ LinksTo(old, X)
                   /\ \A i \in DOMAIN tagAttr'[m][attr] : tagAttr'[m][attr][i] = old[i]
              /\ LinksTo(old, X) = {} => tagAttr' = tagAttr
              /\ UNCHANGED <<nodeName, dataAttr, hostConns, referenced, instances>> ]_vars

\* C8 witness: one untag call has disconnected two connections and the tag
\* keeps a connection from another node.
C8_Witness ==
    /\ last.op = "untag"
    /\ Cardinality(last.names) >= 2
    /\ DOMAIN TagLinks(tagAttr, last.self.meta_pointer, last.a1) # {}

\* C9: on the object a creating create() call returns, get(l) returns None
\* for every label and find(t) the empty list for every tag, raising nothing.
C9_FreshRecordEmpty ==
    (last.op = "create" /\ last.a2 = "" /\ last.inst # NoInstance) =>
        /\ \A label \in Labels :
             Metadata_get(last.inst, label) = [exc |-> "", val |-> None]
        /\ \A tag_name \in TagNames : Metadata_find(last.inst, tag_name) = << >>

\* C9 witness: create() has made a metadata node and returned its object.
C9_Witness ==
    /\ last.op = "create"
    /\ last.a2 = ""
    /\ last.inst # NoInstance
    /\ dataAttr[last.inst.meta_pointer] =
         [persistentData |-> json_dumps(EmptyDict), transientData |-> json_dumps(EmptyDict)]

\* C10: with text that is no JSON in one data attribute and a dict in the
\* other, get(label) raises nothing and returns what the dict of the other
\* attribute gives for label (None when it has no such label).
C10_MalformedTierIsEmpty ==
    \A self \in instances, label \in Labels :
        LET m == self.meta_pointer
            p == dataAttr[m][PERSISTENT_DATA]
            t == dataAttr[m][TRANSIENT_DATA]
            r == Metadata_get(self, label)
        IN  /\ (~json_loads(p).ok /\ IsDictText(t)) =>
                  r = [exc |-> "", val |-> DictGet(Tier(t), label)]
            /\ (~json_loads(t).ok /\ IsDictText(p)) =>
                  r = [exc |-> "", val |-> DictGet(Tier(p), label)]

\* The nodes behind a list of names, in the scene whose nodes are named by names.
PointersOf(names, list) == { PointerIn(names, list[k]) : k \in 1 .. Len(list) }

\* C11: a rename of any node leaves every constructed object working: host()
\* and node() return the names the host and the metadata node have after the
\* rename, get(label) returns what it returned before it, and find(t) returns
\* as many names as before, all of them current, of the same nodes.
C11_RenameSurvival ==
    [][ last'.op = "rename" =>
          \A self \in instances :
              /\ Metadata_hostIn(nodeName', self) = nodeName'[self.host_pointer]
              /\ Metadata_nodeIn(nodeName', self) = nodeName'[self.meta_pointer]
              /\ Metadata_hostIn(nodeName', self) \in { nodeName'[h] : h \in DOMAIN nodeName' }
              /\ Metadata_nodeIn(nodeName', self) \in { nodeName'[h] : h \in DOMAIN nodeName' }
              /\ \A label \in Labels :
                     Metadata_getIn(nodeName', dataAttr', self, label)
                       = Metadata_get(self, label)
              /\ \A tag_name \in TagNames :
                     LET before == Metadata_find(self, tag_name)
                         after  == Metadata_findIn(nodeName', tagAttr', self, tag_name)
                     IN  /\ Len(after) = Len(before)
                         /\ PointersOf(nodeName', after) = PointersOf(nodeName, before)
                         /\ NoHandle \notin PointersOf(nodeName', after) ]_vars

\* C11 witness: the host and the metadata node of an object have both been
\* renamed, the last rename being the host's; the object holds a value and a
\* tagged node.
C11_Witness ==
    /\ last.op = "rename"
    /\ \E self \in instances :
          /\ nodeName[self.host_pointer] = last.a2
          /\ nodeName[self.meta_pointer] \in RenameNames
          /\ Metadata_host(self) = last.a2
          /\ \E label \in Labels : Metadata_get(self, label).val # None
          /\ \E tag_name \in TagNames : Len(Metadata_find(self, tag_name)) > 0

\* The metadata nodes whose .host is connected from the node h.
StorageOf(h) == { hostConns[i][2] : i \in HostLinksOf(h) }

\* The metadata nodes that hold a tag connection from the node h.
TaggedBy(h) ==
    { m \in DOMAIN tagAttr :
        \E attr \in DOMAIN tagAttr[m] : LinksTo(tagAttr[m][attr], h) # {} }

\* C12: for every node, get_metanode returns the name of the metadata node
\* whose .host is connected from it and "" when there is none, whatever tag
\* connections leave the node's message plug; has_meta is true exactly when
\* get_metanode returns a name, and the calls made return just that.
C12_LookupByHostLink ==
    /\ \A h \in Nodes :
          /\ StorageOf(h) = {} => get_metanode(nodeName[h]) = ""
          /\ StorageOf(h) # {} =>
                get_metanode(nodeName[h]) \in { nodeName[m] : m \in StorageOf(h) }
          /\ has_meta(nodeName[h]) <=> StorageOf(h) # {}
          /\ has_meta(nodeName[h]) <=> get_metanode(nodeName[h]) # ""
    /\ last.op = "has_meta" =>
          (last.val = "True" <=> StorageOf(get_pointer(last.a1)) # {})
    /\ last.op = "get_metanode" =>
          (last.val # "" <=> StorageOf(get_pointer(last.a1)) # {})

\* C12 witness: has_meta has answered False for a node that is tagged and has
\* no metadata node, while a host tagged by its own object and by another
\* one is found to have its own metadata node.
C12_Witness ==
    /\ last.op = "has_meta"
    /\ last.val = "False"
    /\ TaggedBy(get_pointer(last.a1)) # {}
    /\ \E self \in instances :
          /\ Cardinality(TaggedBy(self.host_pointer)) >= 2
          /\ self.meta_pointer \in TaggedBy(self.host_pointer)
          /\ get_metanode(nodeName[self.host_pointer]) = nodeName[self.meta_pointer]

\* C13: whatever calls of create, Metadata.create, set, tag and untag were
\* made, no node has more than one metadata node connected to it through
\* .host.
C13_AtMostOneStorageNode ==
    \A h \in Nodes : Cardinality(StorageOf(h)) <= 1

\* C14: a set(label, v) called while the active attribute (transientData of
\* a referenced metadata node, persistentData otherwise) holds a dict raises
\* nothing and leaves that attribute holding a dict with the keys it had and
\* label, every other key with the value it had, label once and with the
\* value v: so the later of two calls on one label is the one stored.
C14_ReadModifyWrite ==
    [][ LET m     == last'.self.meta_pointer
            label == last'.a1
            attr  == ActiveAttr(m \in referenced)
            old   == Tier(dataAttr[m][attr])
            new   == Tier(dataAttr'[m][attr])
        IN  (last'.op = "set" /\ IsDictText(dataAttr[m][attr])) =>
              /\ last'.exc = ""
              /\ last'.val = attr
              /\ IsDictText(dataAttr'[m][attr])
              /\ DictKeys(new) = DictKeys(old) \cup {label}
              /\ Len(new) = Cardinality(DictKeys(new))
              /\ DictGet(new, label) = last'.a2
              /\ \A k \in DictKeys(old) \ {label} : DictGet(new, k) = DictGet(old, k) ]_vars

\* C14 witness: set has just written a label that stands before another one
\* in the active attribute: the label was set, then the other one, then the
\* label again, and both are stored.
C14_Witness ==
    /\ last.op = "set"
    /\ last.exc = ""
    /\ LET stored == Tier(dataAttr[last.self.meta_pointer][last.val])
       IN  /\ Len(stored) = 2
           /\ stored[1] = <<last.a1, last.a2>>
           /\ stored[2][1] # last.a1

\* C15: every set call picks its attribute by what referenceQuery answers for
\* the metadata node when the call is made: transientData exactly when the
\* node is referenced then, persistentData otherwise; a call that raises
\* nothing stores label and value in that attribute, and the other attribute
\* keeps its text.
C15_TierByReferenceAtCall ==
    [][ LET m == last'.self.meta_pointer
        IN  last'.op = "set" =>
              /\ (last'.val = TRANSIENT_DATA) <=> (m \in referenced)
              /\ (last'.val = PERSISTENT_DATA) <=> (m \notin referenced)
              /\ \A attr \in DataAttrs \ {last'.val} : dataAttr'[m][attr] = dataAttr[m][attr]
              /\ last'.exc = "" =>
                    DictGet(Tier(dataAttr'[m][last'.val]), last'.a1) = last'.a2 ]_vars

\* C15 witness: an object made while its metadata node was not referenced has
\* written transientData while the node was referenced, and has now written
\* another label to persistentData, the node being no longer referenced.
C15_Witness ==
    /\ last.op = "set"
    /\ last.exc = ""
    /\ last.val = PERSISTENT_DATA
    /\ last.self.meta_pointer \notin referenced
    /\ LET m == last.self.meta_pointer
       IN  /\ Len(Tier(dataAttr[m][TRANSIENT_DATA])) > 0
           /\ ~DictHas(Tier(dataAttr[m][TRANSIENT_DATA]), last.a1)
           /\ DictGet(Tier(dataAttr[m][PERSISTENT_DATA]), last.a1) = last.a2

\* C16: tag(t, X) raises nothing and connects X at one new index of the tag
\* attribute of t: 0 when the attribute had no connection, else one above the
\* highest index in use, also when untag has left gaps below it; every
\* connection the attribute had keeps its index and its source, and the other
\* tag attributes and metadata nodes keep theirs.
C16_TagAppends ==
    [][ LET m    == last'.self.meta_pointer
            attr == TagAttrName(last'.a1)
            old  == TagLinks(tagAttr, m, last'.a1)
            new  == TagLinks(tagAttr', m, last'.a1)
            idx  == IF DOMAIN old = {} THEN 0 ELSE Max(DOMAIN old) + 1
        IN  last'.op = "tag" =>
              /\ last'.exc = ""
              /\ idx \notin DOMAIN old
              /\ DOMAIN new = DOMAIN old \cup {idx}
              /\ Cardinality(DOMAIN new) = Cardinality(DOMAIN old) + 1
              /\ new[idx] = PointerIn(nodeName, last'.a2)
              /\ \A i \in DOMAIN old : new[i] = old[i]
              /\ DOMAIN tagAttr' = DOMAIN tagAttr
              /\ \A n \in DOMAIN tagAttr : n # m => tagAttr'[n] = tagAttr[n]
              /\ DOMAIN tagAttr'[m] = DOMAIN tagAttr[m] \cup {attr}
              /\ \A a \in DOMAIN tagAttr[m] : a # attr => tagAttr'[m][a] = tagAttr[m][a] ]_vars

\* C16 witness: tag has connected its target at index 2 of an attribute whose
\* index 0 untag had disconnected and whose index 1 is still connected.
C16_Witness ==
    /\ last.op = "tag"
    /\ LET links == TagLinks(tagAttr, last.self.meta_pointer, last.a1)
       IN  /\ DOMAIN links = {1, 2}
           /\ links[2] = get_pointer(last.a2)
           /\ links[1] # links[2]

\* C17: a set(label, v) called while the active attribute holds text that is
\* no JSON raises nothing and leaves in that attribute the text of the dict
\* {label: v} and nothing else; the other attribute keeps its text.
C17_MalformedOverwritten ==
    [][ LET m    == last'.self.meta_pointer
            attr == ActiveAttr(m \in referenced)
        IN  (last'.op = "set" /\ ~json_loads(dataAttr[m][attr]).ok) =>
              /\ last'.exc = ""
              /\ last'.val = attr
              /\ dataAttr'[m][attr] = json_dumps(<<<<last'.a1, last'.a2>>>>)
              /\ json_loads(dataAttr'[m][attr])
                   = [ok |-> TRUE, kind |-> "dict", val |-> <<<<last'.a1, last'.a2>>>>]
              /\ \A other \in DataAttrs \ {attr} : dataAttr'[m][other] = dataAttr[m][other] ]_vars

\* C17 witness: set has caught JSONDecodeError reading transientData of a
\* referenced metadata node and has left {label: v} there, persistentData
\* still holding its entry.
C17_Witness ==
    /\ last.op = "set"
    /\ last.exc = ""
    /\ last.names = {"JSONDecodeError"}
    /\ last.val = TRANSIENT_DATA
    /\ LET m == last.self.meta_pointer
       IN  /\ Tier(dataAttr[m][TRANSIENT_DATA]) = <<<<last.a1, last.a2>>>>
           /\ Len(Tier(dataAttr[m][PERSISTENT_DATA])) > 0

\* C18: a set call that writes after another call has read stores the dict it
\* read itself with its own label put in, whatever was stored in between;
\* and when two calls on one object and attribute have read the same dict and
\* both have written, the attribute holds that dict with the entry of one of
\* the two calls put in: the last writer's, never a dict merged from both.
C18_LastWriterWins ==
    /\ \A c \in Callers :
          (last.op = "set" /\ last.names = {c}) =>
              LET p == pending[c]
              IN  /\ p.pc = "done"
                  /\ dataAttr[get_pointer(p.meta_name)][p.attr]
                       = json_dumps(DictSet(p.current_data, p.label, p.value))
    /\ LET p == pending[1]
           q == pending[2]
           stored == Tier(dataAttr[get_pointer(p.meta_name)][p.attr])
       IN  ( /\ p.pc = "done" /\ q.pc = "done"
             /\ p.self = q.self /\ p.attr = q.attr
             /\ p.current_data = q.current_data )
           => /\ stored \in { DictSet(p.current_data, p.label, p.value),
                              DictSet(q.current_data, q.label, q.value) }
              /\ ( /\ p.label # q.label
                    /\ ~DictHas(p.current_data, p.label)
                    /\ ~DictHas(p.current_data, q.label) )
                  => ~(DictHas(stored, p.label) /\ DictHas(stored, q.label))

\* C18 witness: two callers have read the same dict, both have written, each
\* its own label, and the attribute holds the label of the second writer and
\* has lost the label of the first.
C18_Witness ==
    /\ pending[1].pc = "done"
    /\ pending[2].pc = "done"
    /\ pending[1].self = pending[2].self
    /\ pending[1].current_data = pending[2].current_data
    /\ pending[1].label # pending[2].label
    /\ last.op = "set"
    /\ last.names = {2}
    /\ LET stored == Tier(dataAttr[get_pointer(pending[2].meta_name)][pending[2].attr])
       IN  /\ DictHas(stored, pending[2].label)
           /\ ~DictHas(stored, pending[1].label)

\* C19: a set, tag, untag, get or find call on an object leaves the
\* connections into .host as they were, and the host of the object and its
\* metadata node are connected by one connection, each of them in no other,
\* before and after the call: also when the host itself is the node tagged
\* or untagged.
C19_HostLinkFixed ==
    [][ LET self == last'.self
            OfRecord(conns) ==
                { i \in 1 .. Len(conns) :
                    conns[i][1] = self.host_pointer \/ conns[i][2] = self.meta_pointer }
        IN  last'.op \in {"set", "tag", "untag", "get", "find"} =>
              /\ hostConns' = hostConns
              /\ Cardinality(OfRecord(hostConns')) = 1
              /\ \A i \in OfRecord(hostConns') :
                     hostConns'[i] = <<self.host_pointer, self.meta_pointer>> ]_vars

\* C19 witness: untag has disconnected the host of the object from a tag of
\* its own metadata node, and the host is still connected to .host of it.
C19_Witness ==
    /\ last.op = "untag"
    /\ last.names # {}
    /\ last.a2 = nodeName[last.self.host_pointer]
    /\ \E i \in 1 .. Len(hostConns) :
          hostConns[i] = <<last.self.host_pointer, last.self.meta_pointer>>

\* The operations that only read the scene.
ReadOps == {"get", "find", "find_first", "has_meta", "get_metanode", "node", "host"}

\* C20: a call of get, find, find_first, has_meta, get_metanode, node or host
\* leaves the nodes and their names, both data attributes of every metadata
\* node, every tag attribute with its connections, the connections into
\* .host and the reference states exactly as they were.
C20_ReadsChangeNothing ==
    [][ last'.op \in ReadOps =>
          /\ nodeName' = nodeName
          /\ dataAttr' = dataAttr
          /\ tagAttr' = tagAttr
          /\ hostConns' = hostConns
          /\ referenced' = referenced ]_vars

\* C20 witness: find has returned the empty list for a tag the metadata node
\* has no attribute of, on a record with a data attribute that holds no JSON
\* and with another tag that has a connection.
C20_Witness ==
    /\ last.op = "find"
    /\ last.names = << >>
    /\ LET m == last.self.meta_pointer
       IN  /\ TagAttrName(last.a1) \notin DOMAIN tagAttr[m]
           /\ \E attr \in DataAttrs : ~json_loads(dataAttr[m][attr]).ok
           /\ \E t \in TagNames : DOMAIN TagLinks(tagAttr, m, t) # {}

\* C21: a set, tag or untag call on the object of one host leaves both data
\* attributes and every tag attribute, with its connections, of every other
\* metadata node exactly as they were, and adds or removes no metadata node,
\* also when the other record holds the same label, the same tag name or a
\* connection from the same node.
C21_RecordIsolation ==
    [][ LET m == last'.self.meta_pointer
        IN  last'.op \in {"set", "tag", "untag"} =>
              /\ DOMAIN dataAttr' = DOMAIN dataAttr
              /\ DOMAIN tagAttr' = DOMAIN tagAttr
              /\ \A n \in DOMAIN dataAttr : n # m =>
                     /\ dataAttr'[n][PERSISTENT_DATA] = dataAttr[n][PERSISTENT_DATA]
                     /\ dataAttr'[n][TRANSIENT_DATA] = dataAttr[n][TRANSIENT_DATA]
                     /\ tagAttr'[n] = tagAttr[n] ]_vars

\* C21 witness: untag has disconnected a node from the tag of one record
\* while the record of another host holds a connection from the same node
\* under the same tag name, and both records hold the same label with
\* different values.
C21_Witness ==
    /\ last.op = "untag"
    /\ last.names # {}
    /\ \E other \in instances :
          /\ other.meta_pointer # last.self.meta_pointer
          /\ other.host_pointer # last.self.host_pointer
          /\ LinksTo(TagLinks(tagAttr, other.meta_pointer, last.a1),
                     get_pointer(last.a2)) # {}
          /\ \E label \in Labels :
                /\ Metadata_get(other, label).val # None
                /\ Metadata_get(last.self, label).val # None
                /\ Metadata_get(other, label).val # Metadata_get(last.self, label).val

====
